---- MODULE Spec2Model ----
(***************************************************************************)
(* Model of the Fuji acquisition engine: the helper operations of          *)
(* AcquisitionMethod (acquisition/abstract.py) and the control flow of     *)
(* SnapshotMountMethod.execute (acquisition/snapshot.py).                  *)
(*                                                                         *)
(* Text (command output, paths) is a sequence of tokens; a token is one    *)
(* character, except VOL which stands for the substring "/Volumes".        *)
(* Python's None is the one-token text None, which no command prints.      *)
(***************************************************************************)
EXTENDS Integers, Sequences, FiniteSets, TLC

VARIABLES pc, report, clock, cmds, exc, env, attach_output, snapshot_image,
          mounted_path, destination_path, hashing, inspected, h_pc, h_op, h_cmds, h_calls, h_ret, output_files,
          temporary_path, temporary_volume, output_path, d_result, d_i,
          d_attempts, d_plan, d_count, d_exc

vars == <<pc, report, clock, cmds, exc, env, attach_output, snapshot_image,
          mounted_path, destination_path, hashing, inspected, h_pc, h_op, h_cmds, h_calls, h_ret, output_files,
          temporary_path, temporary_volume, output_path, d_result, d_i,
          d_attempts, d_plan, d_count, d_exc>>

exec_vars == <<pc, report, clock, cmds, exc, env, attach_output, snapshot_image,
               mounted_path, destination_path>>

helper_vars == <<h_pc, h_op, h_cmds, h_calls, h_ret, output_files, temporary_path,
                 temporary_volume, output_path, d_result, d_i, d_attempts,
                 d_plan, d_count, d_exc, hashing, inspected>>

pure_vars == <<hashing, inspected>>

detach_vars == <<d_result, d_i, d_attempts, d_plan, d_count, d_exc>>

----------------------------------------------------------------------------
(* Bounds of the model *)

\* deepest path of the modelled directory chain /, /a, /a/b
MaxDepth == 2
\* largest value of the attempts argument of _detach_temporary_image
MaxAttempts == 3
\* number of helper calls made on one Report
MaxCalls == 3
\* number of whole chunks of the largest hashed file
MaxChunks == 120

----------------------------------------------------------------------------
(* Text *)

SP == " "
TAB == "TAB"
NL == "NL"
COLON == ":"
VOL == "/Volumes"
None == <<"None">>
WS == {SP, TAB, NL}

\* first index of s holding a token of set cs, 0 when there is none
FirstIndex(s, cs) ==
    IF \E i \in 1..Len(s) : s[i] \in cs
    THEN CHOOSE i \in 1..Len(s) : s[i] \in cs /\ \A j \in 1..(i - 1) : s[j] \notin cs
    ELSE 0

RECURSIVE LStrip(_)
LStrip(s) == IF s # <<>> /\ Head(s) \in WS THEN LStrip(Tail(s)) ELSE s

RECURSIVE RStrip(_)
RStrip(s) ==
    IF s # <<>> /\ s[Len(s)] \in WS THEN RStrip(SubSeq(s, 1, Len(s) - 1)) ELSE s

\* str.strip()
Strip(s) == RStrip(LStrip(s))

\* str.splitlines()
RECURSIVE SplitLines(_)
SplitLines(s) ==
    IF s = <<>> THEN <<>>
    ELSE LET i == FirstIndex(s, {NL})
         IN IF i = 0 THEN <<s>>
            ELSE <<SubSeq(s, 1, i - 1)>> \o SplitLines(SubSeq(s, i + 1, Len(s)))

\* str.split(sep)
RECURSIVE SplitOn(_, _)
SplitOn(s, sep) ==
    LET i == FirstIndex(s, {sep})
    IN IF i = 0 THEN <<s>>
       ELSE <<SubSeq(s, 1, i - 1)>> \o SplitOn(SubSeq(s, i + 1, Len(s)), sep)

\* str.split()
RECURSIVE SplitWS(_)
SplitWS(s) ==
    LET t == LStrip(s)
    IN IF t = <<>> THEN <<>>
       ELSE LET i == FirstIndex(t, WS)
            IN IF i = 0 THEN <<t>>
               ELSE <<SubSeq(t, 1, i - 1)>> \o SplitWS(SubSeq(t, i + 1, Len(t)))

\* re.split(r'\s+', s, maxsplit)
RECURSIVE ReSplitWS(_, _)
ReSplitWS(s, maxsplit) ==
    IF maxsplit = 0 THEN <<s>>
    ELSE LET i == FirstIndex(s, WS)
         IN IF i = 0 THEN <<s>>
            ELSE <<SubSeq(s, 1, i - 1)>>
                 \o ReSplitWS(LStrip(SubSeq(s, i, Len(s))), maxsplit - 1)

\* the lines of s that contain the token marker, in order
RECURSIVE SelectLines(_, _)
SelectLines(s, marker) ==
    IF s = <<>> THEN <<>>
    ELSE (IF \E i \in 1..Len(Head(s)) : Head(s)[i] = marker THEN <<Head(s)>> ELSE <<>>)
         \o SelectLines(Tail(s), marker)

\* truth value of a str-or-None in a Python condition
TruthyNoneIsTrue(v) == v # <<>>

Truthy(v) == v # None /\ v # <<>>

\* list.append
ListPrepend(l, x) == <<x>> \o l

ListAppend(l, x) == Append(l, x)

\* a is a prefix of b
IsPrefix(a, b) == Len(a) <= Len(b) /\ SubSeq(b, 1, Len(a)) = a

----------------------------------------------------------------------------
(* Values *)

\* an unset attribute (None) and a set one, for the attributes that are not text
NoValue == [isNone |-> TRUE]
Some(x) == [isNone |-> FALSE, val |-> x]

\* Report(parameters=params, method=self, start_time=datetime.now())
NewReport(params, now) ==
    [parameters |-> params, method |-> "Snapshot Mount", start_time |-> Some(now),
     end_time |-> NoValue, path_details |-> NoValue, hardware_info |-> <<>>,
     success |-> FALSE, output_files |-> <<>>, result |-> NoValue]

----------------------------------------------------------------------------
(* The outcomes of the external steps *)

Paths == 0..MaxDepth

\* os.path.dirname on the chain /, /a, /a/b, ...: the parent, and / for /
dirname(p) == IF p = 0 THEN 0 ELSE p - 1

\* os.statvfs(path).f_blocks, .f_frsize and os.stat(path).st_dev
StatChoices ==
    { [f_blocks |-> 1000, f_frsize |-> 512, st_dev |-> 1],
      [f_blocks |-> 3, f_frsize |-> 1000, st_dev |-> 2] }

\* (returncode, stdout) of "diskutil info <path>"
DiskutilOutcomes ==
    { [result |-> 1, output |-> <<"e">>],
      [result |-> 0, output |-> <<"h", NL, SP, "k", COLON, SP, "d", SP, NL, "r">>],
      [result |-> 0, output |-> <<"h">>],
      [result |-> 0, output |-> <<"h", NL, "k">>] }

\* the mount table and the symbolic links: / is a mount boundary, a symbolic
\* link is none, the real path of a path is no symbolic link, and a path
\* that is its own real path has no symbolic link above it
MountTables ==
    { m \in [ismount : [Paths -> BOOLEAN], real : [Paths -> Paths]] :
        /\ m.ismount[0] /\ m.real[0] = 0
        /\ \A p \in Paths : m.real[m.real[p]] = m.real[p]
        /\ \A p \in Paths : m.real[p] # p => ~m.ismount[p]
        /\ \A p \in Paths : m.real[p] = p => m.real[dirname(p)] = dirname(p) }

\* what the file system answers for the source path (src) and for every
\* other path (oth)
FileSystem(m, source, st_src, st_oth, du_src, du_oth) ==
    [ismount |-> m.ismount, real |-> m.real,
     stat |-> [p \in Paths |-> IF p = source THEN st_src ELSE st_oth],
     diskutil |-> [p \in Paths |-> IF p = source THEN du_src ELSE du_oth]]

\* stdout of "system_profiler SPHardwareDataType"
HardwareOutputs == { <<>>, <<"h", "w">> }

\* (returncode, stdout) of the osascript file chooser and folder chooser
ImageChooserOutcomes ==
    { [returncode |-> 1, stdout |-> <<>>],
      [returncode |-> 0, stdout |-> <<NL>>],
      [returncode |-> 0, stdout |-> <<"i", NL>>] }

DestinationChooserOutcomes ==
    { [returncode |-> 1, stdout |-> <<>>],
      [returncode |-> 0, stdout |-> <<NL>>],
      [returncode |-> 0, stdout |-> <<"o", NL>>] }

\* (returncode, output) of "hdiutil attach <image>"
AttachOutcomes ==
    { [result |-> 1, output |-> <<"e">>],
      [result |-> 1, output |-> <<"d", SP, TAB, "t", SP, TAB, VOL, "n", NL>>],
      [result |-> 0, output |-> <<"d", SP, TAB, "t", SP, TAB, VOL, "n", NL>>],
      [result |-> 0, output |-> <<"d", SP, "g", NL,
                                  "d", SP, TAB, "t", SP, TAB, VOL, "n", SP, "m", NL>>],
      [result |-> 0, output |-> <<"d", SP, "t", NL>>],
      [result |-> 0, output |-> <<"d", TAB, VOL, "n">>],
      [result |-> 0, output |-> <<"d", SP, VOL, SP, NL, "x">>] }

\* (returncode, stdout) of "df <mount point>"
DfOutcomes ==
    { [returncode |-> 1, stdout |-> <<>>],
      [returncode |-> 0, stdout |-> <<"F", NL>>],
      [returncode |-> 0, stdout |-> <<"F", NL, "d", SP, "u", NL>>],
      [returncode |-> 0, stdout |-> <<"F", NL, NL, "d", NL>>] }

\* exit statuses of a command: success, failure, killed by a signal
ExitStatuses == {0, 1, -15}

----------------------------------------------------------------------------
(* AcquisitionMethod: path inspection *)

RECURSIVE WalkUp(_, _)
WalkUp(path, fs) == IF fs.ismount[path] THEN path ELSE WalkUp(dirname(path), fs)

find_mount_point(path, fs) == WalkUp(fs.real[path], fs)

PathDetails(path, is_disk, sectors, device, identifier, info) ==
    [path |-> path, is_disk |-> is_disk, disk_sectors |-> sectors,
     disk_device |-> device, disk_identifier |-> identifier, disk_info |-> info]

\* the result is [raised, exc, details]: the PathDetails returned, or the
\* exception that left the call
\* the sector count with the block size taken for the sector size
SectorsAsBlocks(disk_stats) == disk_stats.f_blocks

\* line 104: int(f_blocks * f_frsize / 512)
Sectors(disk_stats) == (disk_stats.f_blocks * disk_stats.f_frsize) \div 512

RECURSIVE gather_path_info(_, _)
gather_path_info(path, fs) ==
    LET is_disk == fs.ismount[path]
        disk_stats == fs.stat[path]
        sectors == Sectors(disk_stats)
        disk_identifier == disk_stats.st_dev
        Ok(d) == [raised |-> FALSE, exc |-> "", details |-> d]
        Raise(e) == [raised |-> TRUE, exc |-> e, details |-> NoValue]
    IN IF is_disk
       THEN LET du == fs.diskutil[path]
                lines == SplitLines(du.output)
            IN IF du.result = 0
               THEN IF Len(lines) < 2 THEN Raise("IndexError")
                    ELSE LET fields == SplitOn(lines[2], COLON)
                         IN IF Len(fields) < 2 THEN Raise("IndexError")
                            ELSE Ok(PathDetails(path, TRUE, sectors, Strip(fields[2]),
                                                disk_identifier, du.output))
               ELSE Ok(PathDetails(path, FALSE, sectors, <<>>, disk_identifier,
                                   du.output))
       ELSE LET mount_point == find_mount_point(path, fs)
                mount_info == gather_path_info(mount_point, fs)
            IN IF mount_info.raised THEN mount_info
               ELSE Ok(PathDetails(path, FALSE, sectors,
                                   mount_info.details.disk_device, disk_identifier,
                                   mount_info.details.disk_info))

----------------------------------------------------------------------------
(* SnapshotMountMethod: the helpers of execute *)

\* subprocess.run(..., check=True): CalledProcessError is caught, None returned
prompt_result(outcome) ==
    IF outcome.returncode # 0 THEN None ELSE Strip(outcome.stdout)

\* _mount_snapshot_image without its test of the exit status
mount_snapshot_image_IgnoringStatus(attach) ==
    LET output_lines == SplitLines(Strip(attach.output))
        volume_lines == SelectLines(output_lines, VOL)
    IN IF volume_lines = <<>> THEN None
       ELSE LET parts == ReSplitWS(volume_lines[1], 2)
            IN IF Len(parts) < 3 THEN None ELSE parts[3]

\* the mount point parsed from the output of hdiutil attach, or None
mount_snapshot_image(attach) ==
    IF attach.result # 0 THEN None
    ELSE LET output_lines == SplitLines(Strip(attach.output))
             volume_lines == SelectLines(output_lines, VOL)
         IN IF volume_lines = <<>> THEN None
            ELSE LET parts == ReSplitWS(volume_lines[1], 2)
                 IN IF Len(parts) < 3 THEN None ELSE parts[3]

\* the result is [raised, device]: the device of the second line of the
\* output of df, None, or an IndexError on a blank second line
get_disk_device_from_mount(df) ==
    IF df.returncode # 0 THEN [raised |-> FALSE, device |-> None]
    ELSE LET lines == SplitLines(Strip(df.stdout))
         IN IF Len(lines) < 2 THEN [raised |-> FALSE, device |-> None]
            ELSE LET fields == SplitWS(lines[2])
                 IN IF fields = <<>> THEN [raised |-> TRUE, device |-> None]
                    ELSE [raised |-> FALSE, device |-> fields[1]]

\* the methods that AcquisitionMethod and SnapshotMountMethod define; a call
\* of any other name on self raises AttributeError
Methods ==
    { "_run_silent", "_run_process", "_find_mount_point", "_gather_path_info",
      "_gather_hardware_info", "_create_temporary_image", "_detach_temporary_image",
      "_generate_dmg", "_compute_hashes", "_write_report", "execute",
      "_prompt_for_image", "_prompt_for_destination", "_mount_snapshot_image",
      "_detach_mounted_image", "_get_disk_device_from_mount", "_copy_with_ditto" }

----------------------------------------------------------------------------
(* State *)

\* pc                position of SnapshotMountMethod.execute
\* report            the Report of execute (meaningful once pc # "idle")
\* clock             the value the next datetime.now() returns
\* cmds              the external commands execute has issued, with their status
\* exc               the exception that left execute, when pc = "raised"
\* env               the exit status that ditto and hdiutil detach (first
\*                   and later invocations) have in store for execute,
\*                   should it run them
\* attach_output     the output of execute's hdiutil attach (None before it)
\* hashing           the locals of _compute_hashes and the markers it printed
\* inspected         the file system, path and result of a _gather_path_info call
\* snapshot_image, mounted_path, destination_path     the locals of execute
\* h_pc, h_op        position in, and name of, the helper call in progress
\* h_cmds            the commands and sleeps of the latest helper call
\* h_calls, h_ret    helper calls made so far; value the latest one returned
\* output_files      Report.output_files of the Report passed to the helpers
\* temporary_path, temporary_volume, output_path   attributes of the method object
\* d_result, d_i, d_attempts   locals of _detach_temporary_image
\* d_plan, d_count   exit status of the n-th hdiutil detach; detaches issued
\* d_exc             exception raised by the latest _detach_temporary_image ("" if none)

Cmd(name, status) == [cmd |-> name, status |-> status]

Issued(log, name) == \E i \in 1..Len(log) : log[i].cmd = name

NumIssued(log, name) == Cardinality({i \in 1..Len(log) : log[i].cmd = name})

Init ==
    /\ pc = "idle"
    /\ report = NoValue
    /\ clock = 1
    /\ cmds = <<>>
    /\ exc = ""
    /\ env = [ditto |-> 0, detach |-> 0, detach_retry |-> 0]
    /\ attach_output = None
    /\ hashing = NoValue
    /\ inspected = NoValue
    /\ snapshot_image = None
    /\ mounted_path = None
    /\ destination_path = None
    /\ h_pc = "idle"
    /\ h_op = ""
    /\ h_cmds = <<>>
    /\ h_calls = 0
    /\ h_ret = FALSE
    /\ output_files = <<>>
    /\ temporary_path = None
    /\ temporary_volume = None
    /\ output_path = None
    /\ d_result = NoValue
    /\ d_i = 0
    /\ d_attempts = 0
    /\ d_plan = <<>>
    /\ d_count = 0
    /\ d_exc = ""

----------------------------------------------------------------------------
(* SnapshotMountMethod.execute *)

\* line 17: the Report is created
execute_start ==
    /\ pc = "idle" /\ h_pc = "idle" /\ h_calls = 0
    /\ \E source \in Paths : report' = NewReport([source |-> source], clock)
    /\ env' \in [ditto : ExitStatuses, detach : ExitStatuses,
                 detach_retry : ExitStatuses]
    /\ clock' = clock + 1
    /\ pc' = "hardware"
    /\ UNCHANGED <<cmds, exc, attach_output, snapshot_image, mounted_path,
                   destination_path>>
    /\ UNCHANGED helper_vars

\* line 20: the exit status of system_profiler is ignored
execute_gather_hardware_info ==
    /\ pc = "hardware"
    /\ \E out \in HardwareOutputs, status \in {0, 1} :
          /\ report' = [report EXCEPT !.hardware_info = out]
          /\ cmds' = Append(cmds, Cmd("system_profiler", status))
    /\ pc' = "path"
    /\ UNCHANGED <<clock, exc, env, attach_output, snapshot_image, mounted_path,
                   destination_path>>
    /\ UNCHANGED helper_vars

\* line 23: an IndexError of the parse of diskutil's output leaves execute
execute_gather_path_info ==
    /\ pc = "path"
    /\ \E m \in MountTables, st_src, st_oth \in StatChoices,
          du_src, du_oth \in DiskutilOutcomes :
          LET source == report.parameters.source
              fs == FileSystem(m, source, st_src, st_oth, du_src, du_oth)
              queried == IF fs.ismount[source] THEN source
                         ELSE find_mount_point(source, fs)
              r == gather_path_info(source, fs)
          IN /\ cmds' = Append(cmds, Cmd("diskutil", fs.diskutil[queried].result))
             /\ IF r.raised
                THEN /\ pc' = "raised"
                     /\ exc' = r.exc
                     /\ UNCHANGED report
                ELSE /\ pc' = "prompt_image"
                     /\ report' = [report EXCEPT !.path_details = Some(r.details)]
                     /\ UNCHANGED exc
    /\ UNCHANGED <<clock, env, attach_output, snapshot_image, mounted_path,
                   destination_path>>
    /\ UNCHANGED helper_vars

\* lines 27-30
execute_prompt_for_image ==
    /\ pc = "prompt_image"
    /\ \E chosen \in ImageChooserOutcomes :
          /\ snapshot_image' = prompt_result(chosen)
          /\ cmds' = Append(cmds, Cmd("choose_file", chosen.returncode))
    /\ pc' = IF ~Truthy(snapshot_image') THEN "returned" ELSE "mount"
    /\ UNCHANGED <<report, clock, exc, env, attach_output, mounted_path,
                   destination_path>>
    /\ UNCHANGED helper_vars

\* lines 33-36
execute_mount_snapshot_image ==
    /\ pc = "mount"
    /\ \E attach \in AttachOutcomes :
          /\ mounted_path' = mount_snapshot_image(attach)
          /\ attach_output' = attach.output
          /\ cmds' = Append(cmds, Cmd("attach", attach.result))
    /\ pc' = IF ~Truthy(mounted_path') THEN "returned" ELSE "prompt_destination"
    /\ UNCHANGED <<report, clock, exc, env, snapshot_image, destination_path>>
    /\ UNCHANGED helper_vars

\* the destination prompt placed before the mount, which is then skipped
execute_prompt_for_destination_BeforeMount ==
    /\ pc = "mount"
    /\ \E chosen \in DestinationChooserOutcomes :
          /\ destination_path' = prompt_result(chosen)
          /\ cmds' = Append(cmds, Cmd("choose_folder", chosen.returncode))
    /\ pc' = IF ~Truthy(destination_path') THEN "detach_cancelled" ELSE "copy"
    /\ UNCHANGED <<report, clock, exc, env, attach_output, snapshot_image,
                   mounted_path>>
    /\ UNCHANGED helper_vars

\* lines 40-41
execute_prompt_for_destination ==
    /\ pc = "prompt_destination"
    /\ \E chosen \in DestinationChooserOutcomes :
          /\ destination_path' = prompt_result(chosen)
          /\ cmds' = Append(cmds, Cmd("choose_folder", chosen.returncode))
    /\ pc' = IF ~Truthy(destination_path') THEN "detach_cancelled" ELSE "copy"
    /\ UNCHANGED <<report, clock, exc, env, attach_output, snapshot_image,
                   mounted_path>>
    /\ UNCHANGED helper_vars

\* lines 43-44 with _detach_mounted_image: without a device the detach is
\* given up and execute returns; with one, self._run_status is looked up
execute_detach_cancelled ==
    /\ pc = "detach_cancelled"
    /\ \E df \in DfOutcomes :
          LET r == get_disk_device_from_mount(df)
          IN /\ cmds' = Append(cmds, Cmd("df", df.returncode))
             /\ \/ /\ r.raised
                   /\ pc' = "raised" /\ exc' = "IndexError"
                \/ /\ ~r.raised /\ ~Truthy(r.device)
                   /\ pc' = "returned" /\ UNCHANGED exc
                \/ /\ ~r.raised /\ Truthy(r.device)
                   /\ "_run_status" \notin Methods
                   /\ pc' = "raised" /\ exc' = "AttributeError"
    /\ UNCHANGED <<report, clock, env, attach_output, snapshot_image, mounted_path,
                   destination_path>>
    /\ UNCHANGED helper_vars

\* line 47 with _copy_with_ditto: self._run_status is looked up before any
\* command is started
execute_copy_with_ditto ==
    /\ pc = "copy"
    /\ "_run_status" \notin Methods
    /\ pc' = "raised" /\ exc' = "AttributeError"
    /\ UNCHANGED <<report, clock, cmds, env, attach_output, snapshot_image,
                   mounted_path, destination_path>>
    /\ UNCHANGED helper_vars

----------------------------------------------------------------------------
(* AcquisitionMethod: the image helpers, called on a Report of their own *)

\* the value of time.sleep's log entry
Sleep(what) == Cmd(what, 0)

\* (returncode, output) of the "hdiutil attach" of _create_temporary_image
CreateAttachOutcomes ==
    { [result |-> st, output |-> out] :
        st \in ExitStatuses, out \in { <<>>, <<"d", SP, TAB, "t", NL>>, <<SP, "d">> } }

SparseImage == <<"T">>
Dmg == <<"D">>

\* lines 136-167
create_temporary_image ==
    /\ pc = "idle" /\ h_pc = "idle" /\ h_calls < MaxCalls
    /\ h_calls' = h_calls + 1
    /\ h_op' = "_create_temporary_image"
    /\ temporary_path' = SparseImage
    /\ \E created \in ExitStatuses, attach \in CreateAttachOutcomes :
          IF created > 0
          THEN /\ temporary_volume' = None
               /\ h_cmds' = <<Cmd("create", created)>>
               /\ h_ret' = FALSE
               /\ UNCHANGED output_files
          ELSE LET success == attach.result = 0
               IN /\ temporary_volume' = SplitOn(Strip(attach.output), SP)[1]
                  /\ h_cmds' = <<Cmd("create", created), Cmd("attach", attach.result)>>
                  /\ output_files' = IF success
                                     THEN ListAppend(output_files, temporary_path')
                                     ELSE output_files
                  /\ h_ret' = success
    /\ UNCHANGED <<h_pc, output_path>>
    /\ UNCHANGED pure_vars
    /\ UNCHANGED detach_vars
    /\ UNCHANGED exec_vars

\* _generate_dmg recording its path whatever the exit status of the convert
generate_dmg_AlwaysAppend ==
    /\ pc = "idle" /\ h_pc = "idle" /\ h_calls < MaxCalls
    /\ h_calls' = h_calls + 1
    /\ h_op' = "_generate_dmg"
    /\ output_path' = Dmg
    /\ \E result \in ExitStatuses :
          /\ h_cmds' = <<Cmd("convert", result)>>
          /\ output_files' = Append(output_files, output_path')
          /\ h_ret' = (result = 0)
    /\ UNCHANGED <<h_pc, temporary_path, temporary_volume>>
    /\ UNCHANGED pure_vars
    /\ UNCHANGED detach_vars
    /\ UNCHANGED exec_vars

\* lines 184-201
generate_dmg ==
    /\ pc = "idle" /\ h_pc = "idle" /\ h_calls < MaxCalls
    /\ h_calls' = h_calls + 1
    /\ h_op' = "_generate_dmg"
    /\ output_path' = Dmg
    /\ \E result \in ExitStatuses :
          LET success == result = 0
          IN /\ h_cmds' = <<Cmd("convert", result)>>
             /\ output_files' = IF success
                                THEN ListAppend(output_files, output_path')
                                ELSE output_files
             /\ h_ret' = success
    /\ UNCHANGED <<h_pc, temporary_path, temporary_volume>>
    /\ UNCHANGED pure_vars
    /\ UNCHANGED detach_vars
    /\ UNCHANGED exec_vars

\* "not result" for result = False or an exit status
Not(result) == IF result.isNone THEN TRUE ELSE result.val = 0

\* lines 169-173: the call, time.sleep(delay), result = False, i = 1; the
\* detach command's n-th invocation will exit with status d_plan[n]
detach_temporary_image_call ==
    /\ pc = "idle" /\ h_pc = "idle" /\ h_calls < MaxCalls
    /\ h_calls' = h_calls + 1
    /\ h_op' = "_detach_temporary_image"
    /\ \E attempts \in 1..MaxAttempts, plan \in [1..MaxAttempts -> ExitStatuses] :
          /\ d_attempts' = attempts
          /\ d_plan' = plan
    /\ h_cmds' = <<Sleep("sleep_delay")>>
    /\ d_result' = NoValue
    /\ d_i' = 1
    /\ d_count' = 0
    /\ d_exc' = ""
    /\ h_pc' = "detach_while"
    /\ UNCHANGED <<h_ret, output_files, temporary_path, temporary_volume, output_path>>
    /\ UNCHANGED pure_vars
    /\ UNCHANGED exec_vars

\* the loop of _detach_temporary_image reporting success when it is left
detach_temporary_image_while_ReturnsTrue ==
    /\ h_pc = "detach_while"
    /\ IF Not(d_result)
       THEN /\ h_pc' = "detach_body"
            /\ UNCHANGED h_ret
       ELSE /\ h_pc' = "idle"
            /\ h_ret' = TRUE
    /\ UNCHANGED <<h_op, h_cmds, h_calls, output_files, temporary_path,
                   temporary_volume, output_path>>
    /\ UNCHANGED pure_vars
    /\ UNCHANGED detach_vars
    /\ UNCHANGED exec_vars

\* line 174: while not result; line 182 when the loop is left
detach_temporary_image_while ==
    /\ h_pc = "detach_while"
    /\ IF Not(d_result)
       THEN /\ h_pc' = "detach_body"
            /\ UNCHANGED h_ret
       ELSE /\ h_pc' = "idle"
            /\ h_ret' = FALSE
    /\ UNCHANGED <<h_op, h_cmds, h_calls, output_files, temporary_path,
                   temporary_volume, output_path>>
    /\ UNCHANGED pure_vars
    /\ UNCHANGED detach_vars
    /\ UNCHANGED exec_vars

\* lines 175-181: one pass of the loop body; with no volume attached the
\* argument list holds None and subprocess.Popen raises TypeError (line 175,
\* lines 73-78) before any command is started
detach_temporary_image_body ==
    /\ h_pc = "detach_body"
    /\ IF temporary_volume = None
       THEN /\ h_pc' = "idle"
            /\ d_exc' = "TypeError"
            /\ UNCHANGED <<h_cmds, h_ret, d_result, d_i, d_count>>
       ELSE LET result == d_plan[d_count + 1]
                i == d_i + 1
            IN /\ d_count' = d_count + 1
               /\ d_result' = Some(result)
               /\ UNCHANGED d_exc
               /\ IF result = 0
                  THEN /\ h_cmds' = Append(h_cmds, Cmd("detach", result))
                       /\ h_pc' = "idle" /\ h_ret' = TRUE
                       /\ UNCHANGED d_i
                  ELSE IF i = d_attempts
                  THEN /\ h_cmds' = Append(h_cmds, Cmd("detach", result))
                       /\ h_pc' = "idle" /\ h_ret' = FALSE
                       /\ d_i' = i
                  ELSE /\ h_cmds' = Append(h_cmds, Cmd("detach", result))
                                       \o <<Sleep("sleep_interval")>>
                       /\ h_pc' = "detach_while"
                       /\ d_i' = i
                       /\ UNCHANGED h_ret
    /\ UNCHANGED <<h_op, h_calls, output_files, temporary_path, temporary_volume,
                   output_path, d_attempts, d_plan>>
    /\ UNCHANGED pure_vars
    /\ UNCHANGED exec_vars

----------------------------------------------------------------------------
(* AcquisitionMethod: _compute_hashes and _gather_path_info, each called on
   its own *)

\* line 209
ChunkSize == 16 * 1024

\* os.stat(path).st_size of the hashed file
FileSizes ==
    { 0, 1, ChunkSize, ChunkSize + 1, 3 * ChunkSize, MaxChunks * ChunkSize + 1 }

\* line 227 with >= for >
ShouldEmitOrEqual(percent, last_percent) == percent >= last_percent

\* line 227
ShouldEmit(percent, last_percent) == percent > last_percent

\* lines 203-213: total_size, amount, last_percent; fed is the number of
\* bytes the three digests have been updated with, chunks the chunks read,
\* emitted the progress markers printed, each with its line break
compute_hashes_call ==
    /\ pc = "idle" /\ h_pc = "idle" /\ h_calls = 0
    /\ h_calls' = 1
    /\ h_op' = "_compute_hashes"
    /\ h_pc' = "hash_loop"
    /\ \E size \in FileSizes :
          hashing' = [isNone |-> FALSE, total_size |-> size, amount |-> 0,
                      last_percent |-> 0, percent |-> 0, fed |-> 0, chunks |-> 0,
                      emitted |-> <<>>]
    /\ UNCHANGED <<h_cmds, h_ret, output_files, temporary_path, temporary_volume,
                   output_path, inspected>>
    /\ UNCHANGED detach_vars
    /\ UNCHANGED exec_vars

\* lines 216-231: one pass of the loop; lines 233-236 when the read is empty
compute_hashes_chunk ==
    /\ h_pc = "hash_loop"
    /\ LET remaining == hashing.total_size - hashing.fed
           chunk == IF remaining < ChunkSize THEN remaining ELSE ChunkSize
           amount == hashing.amount + ChunkSize
           percent == (100 * amount) \div hashing.total_size
       IN IF chunk = 0
          THEN /\ h_pc' = "hashed"
               /\ UNCHANGED hashing
          ELSE /\ h_pc' = "hash_loop"
               /\ hashing' =
                     [hashing EXCEPT
                        !.fed = @ + chunk,
                        !.chunks = @ + 1,
                        !.amount = amount,
                        !.percent = percent,
                        !.emitted = IF ShouldEmit(percent, hashing.last_percent)
                                    THEN Append(@, [percent |-> percent,
                                                    newline |-> percent % 20 = 0])
                                    ELSE @,
                        !.last_percent = IF ShouldEmit(percent, hashing.last_percent)
                                         THEN percent ELSE @]
    /\ UNCHANGED <<h_op, h_cmds, h_calls, h_ret, output_files, temporary_path,
                   temporary_volume, output_path, inspected>>
    /\ UNCHANGED detach_vars
    /\ UNCHANGED exec_vars

\* the text s with the device name "d" spelled as p + 1 tokens: every volume
\* has a device identifier of its own
RECURSIVE VolumeText(_, _)
VolumeText(s, p) ==
    IF s = <<>> THEN <<>>
    ELSE (IF Head(s) = "d" THEN [i \in 1..(p + 1) |-> "d"] ELSE <<Head(s)>>)
         \o VolumeText(Tail(s), p)

\* lines 101-130: _gather_path_info called on a path of a file system; it
\* runs one "diskutil info", on the path or on the mount point found for it
gather_path_info_call ==
    /\ pc = "idle" /\ h_pc = "idle" /\ h_calls = 0
    /\ h_calls' = 1
    /\ h_op' = "_gather_path_info"
    /\ h_pc' = "inspected"
    /\ \E path \in Paths, m \in MountTables, st_src, st_oth \in StatChoices,
          du_src, du_oth \in DiskutilOutcomes :
          LET base == FileSystem(m, path, st_src, st_oth, du_src, du_oth)
              fs == [base EXCEPT !.diskutil =
                        [p \in Paths |->
                           [base.diskutil[p] EXCEPT !.output = VolumeText(@, p)]]]
              queried == IF fs.ismount[path] THEN path
                         ELSE find_mount_point(path, fs)
          IN /\ inspected' = [isNone |-> FALSE, path |-> path, fs |-> fs,
                              result |-> gather_path_info(path, fs)]
             /\ h_cmds' = <<Cmd("diskutil", fs.diskutil[queried].result)>>
    /\ UNCHANGED <<h_ret, output_files, temporary_path, temporary_volume,
                   output_path, hashing>>
    /\ UNCHANGED detach_vars
    /\ UNCHANGED exec_vars

----------------------------------------------------------------------------
(* Specification *)

Next ==
    \/ execute_start
    \/ execute_gather_hardware_info
    \/ execute_gather_path_info
    \/ execute_prompt_for_image
    \/ execute_mount_snapshot_image
    \/ execute_prompt_for_destination
    \/ execute_detach_cancelled
    \/ execute_copy_with_ditto
    \/ create_temporary_image
    \/ generate_dmg
    \/ detach_temporary_image_call
    \/ detach_temporary_image_while
    \/ detach_temporary_image_body
    \/ compute_hashes_call
    \/ compute_hashes_chunk
    \/ gather_path_info_call

Spec == Init /\ [][Next]_vars

\* the scheduling of a sequential program: a call in progress takes its
\* next step
FairSpec == Spec /\ WF_vars(Next)

\* the helper calls of AcquisitionMethod on their own, under the same
\* scheduling
HelperNext ==
    \/ create_temporary_image
    \/ generate_dmg
    \/ detach_temporary_image_call
    \/ detach_temporary_image_while
    \/ detach_temporary_image_body

HelperSpec == Init /\ [][HelperNext]_vars /\ WF_vars(HelperNext)

----------------------------------------------------------------------------
(* Properties *)

\* execute has ended, by return or by exception
Finished == pc \in {"returned", "raised"}

\* a chooser's result that holds no path
NoSelection(v) == v = None \/ v = <<>>

\* execute called _copy_with_ditto: both choosers gave a path and the image
\* was mounted
CopyCalled ==
    ~NoSelection(snapshot_image) /\ ~NoSelection(mounted_path)
    /\ ~NoSelection(destination_path)

\* the attach command of execute exited with status 0
AttachSucceeded == \E i \in 1..Len(cmds) : cmds[i] = Cmd("attach", 0)

\* _detach_temporary_image has returned
DetachReturned == h_op = "_detach_temporary_image" /\ h_pc = "idle" /\ d_exc = ""

\* the detach command fails on every invocation
AlwaysFailing == \A n \in DOMAIN d_plan : d_plan[n] # 0

\* the detach command fails on its first k-1 invocations and exits 0 on the k-th
FirstSuccessAt(k) == d_plan[k] = 0 /\ \A n \in 1..(k - 1) : d_plan[n] # 0

\* C1: execute never ends by raising an exception, whatever the outcomes of
\* the external steps: it always ends by returning its Report.
C1_ExecuteNeverRaises == pc # "raised"

\* C3: whenever the attach command exited 0, a detach command has been
\* issued by the time execute returns.
C3_DetachedBeforeReturn ==
    (pc = "returned" /\ AttachSucceeded) => Issued(cmds, "detach")

\* C4: the Report execute returns has success equal to the outcome of the
\* copy alone: true when the copy exited 0, whatever the detach did, and
\* false when the copy did not run or exited nonzero.
C4_SuccessIsCopyOutcome ==
    /\ (Finished /\ CopyCalled) =>
          (pc = "returned" /\ report.success = (env.ditto = 0))
    /\ (pc = "returned" /\ ~CopyCalled) => ~report.success

\* C5: when the image chooser returns no selection, execute returns a Report
\* with success false, having issued no attach, destination prompt, copy or
\* detach and written no report, with output_files and end_time untouched.
C5_ImageCancelled ==
    (Finished /\ Issued(cmds, "choose_file") /\ NoSelection(snapshot_image)) =>
        /\ pc = "returned"
        /\ ~report.success
        /\ \A c \in {"attach", "choose_folder", "df", "ditto", "detach", "write_report"} :
              ~Issued(cmds, c)
        /\ report.output_files = <<>>
        /\ report.end_time.isNone

C5_Witness ==
    /\ pc = "returned" /\ snapshot_image = None
    /\ cmds[Len(cmds)] = Cmd("choose_file", 1)

\* C6: against a detach command that fails on every invocation,
\* _detach_temporary_image issues exactly `attempts` detach commands and
\* returns failure.
C6_AlwaysFailingExactlyN ==
    (DetachReturned /\ AlwaysFailing) =>
        (d_count = d_attempts /\ h_ret = FALSE)

\* C7: against a detach command that first exits 0 on its k-th invocation,
\* k <= attempts, _detach_temporary_image returns success after exactly k
\* detach commands.
C7_SuccessAtKth ==
    \A k \in 1..MaxAttempts :
        (DetachReturned /\ k <= d_attempts /\ FirstSuccessAt(k)) =>
            (h_ret = TRUE /\ d_count = k)

\* C8: with both choosers returning a path and attach, copy and detach all
\* exiting 0, execute returns a Report with success true, end_time set and
\* the destination appended to output_files, and the report file has been
\* written exactly once.
C8_HappyPath ==
    (Finished /\ CopyCalled /\ AttachSucceeded /\ env.ditto = 0 /\ env.detach = 0) =>
        /\ pc = "returned"
        /\ report.success
        /\ ~report.end_time.isNone
        /\ report.output_files = <<destination_path>>
        /\ NumIssued(cmds, "write_report") = 1

\* C9: output_files is append-only: every step of every operation leaves the
\* previous list as a prefix of the new one, so the image recorded first
\* stays in front of the one recorded later.
C9_AppendOnly ==
    [][/\ IsPrefix(output_files, output_files')
       /\ pc # "idle" => IsPrefix(report.output_files, report'.output_files)]_vars

C9_Witness == output_files = <<SparseImage, Dmg>>

\* C10: when the copy command exits nonzero, execute still issues the detach
\* for the mounted image and then returns a Report with success false and
\* end_time stamped, the destination not appended and no report written.
C10_CopyFailed ==
    (Finished /\ CopyCalled /\ env.ditto # 0) =>
        /\ pc = "returned"
        /\ Issued(cmds, "detach")
        /\ ~report.success
        /\ ~report.end_time.isNone
        /\ report.output_files = <<>>
        /\ ~Issued(cmds, "write_report")

\* the exit status of execute's attach command is st
AttachExited(st) == \E i \in 1..Len(cmds) : cmds[i] = Cmd("attach", st)

\* the attach output has no line with the volume-mount-root marker, or the
\* first such line has fewer than three whitespace-delimited fields
NoMountLine(output) ==
    LET marked == SelectLines(SplitLines(Strip(output)), VOL)
    IN marked = <<>> \/ Len(ReSplitWS(marked[1], 2)) < 3

\* the place of a command in the order of the steps of execute
StepRank(c) ==
    CASE c = "system_profiler" -> 1
      [] c = "diskutil" -> 2
      [] c = "choose_file" -> 3
      [] c = "attach" -> 4
      [] c = "choose_folder" -> 5
      [] c = "ditto" -> 6
      [] c = "df" -> 7
      [] c = "detach" -> 8
      [] c = "write_report" -> 9

\* C11: when the image is mounted and the destination chooser returns no
\* selection, execute attempts the detach and then returns a Report with
\* success false, having issued no copy, left output_files and end_time
\* untouched and written no report.
C11_DestinationCancelled ==
    (Finished /\ Issued(cmds, "choose_folder") /\ NoSelection(destination_path)) =>
        /\ pc = "returned"
        /\ Issued(cmds, "df")
        /\ ~report.success
        /\ ~Issued(cmds, "ditto")
        /\ report.output_files = <<>>
        /\ report.end_time.isNone
        /\ ~Issued(cmds, "write_report")

\* C12: when the attach command exits nonzero, or prints no line with the
\* mount-root marker, or the first such line has fewer than three fields, the
\* mount yields no mount point and execute returns a Report with success
\* false without a destination prompt, a copy or a report.
C12_MountFailureAborts ==
    (Finished /\ Issued(cmds, "attach")
       /\ (~AttachExited(0) \/ NoMountLine(attach_output))) =>
        /\ mounted_path = None
        /\ pc = "returned"
        /\ ~report.success
        /\ \A c \in {"choose_folder", "ditto", "write_report"} : ~Issued(cmds, c)

C12_Witness ==
    /\ pc = "returned" /\ AttachExited(0)
    /\ attach_output = <<"d", TAB, VOL, "n">>
    /\ mounted_path = None

\* C13: the steps of execute happen in the order hardware, path inspection,
\* image prompt, mount, destination prompt, copy, detach, report, none of
\* them twice; the copy is called only with a mount point obtained and the
\* report is written only after the detach step.
C13_StepOrder ==
    /\ \A i, j \in 1..Len(cmds) :
          i < j => StepRank(cmds[i].cmd) < StepRank(cmds[j].cmd)
    /\ pc = "copy" => (AttachExited(0) /\ ~NoSelection(mounted_path))
    /\ Issued(cmds, "write_report") => Issued(cmds, "df")

C13_Witness ==
    /\ pc = "copy" /\ Len(cmds) = 5
    /\ cmds[4].cmd = "attach" /\ cmds[5].cmd = "choose_folder"

\* C14: the detach after the copy is retried: when the detach command fails
\* on its first invocation and would succeed on a later one, the image ends
\* up detached; the hardware profiler, the attach and the copy are issued at
\* most once.
C14_DetachRetried ==
    /\ (Finished /\ CopyCalled /\ env.detach # 0 /\ env.detach_retry = 0) =>
          /\ pc = "returned"
          /\ NumIssued(cmds, "detach") >= 2
          /\ \E i \in 1..Len(cmds) : cmds[i] = Cmd("detach", 0)
    /\ \A c \in {"system_profiler", "attach", "ditto"} : NumIssued(cmds, c) <= 1

\* the step is a call of the helper named op
Calls(op) == h_calls' = h_calls + 1 /\ h_op' = op

\* C15: for every nonzero exit status of the image-creation command,
\* negative ones included, _create_temporary_image issues no attach, reports
\* failure, leaves the attached volume unset and output_files unchanged.
C15_CreateFailureAborts ==
    [][(Calls("_create_temporary_image") /\ h_cmds'[1].status # 0) =>
          /\ ~Issued(h_cmds', "attach")
          /\ h_ret' = FALSE
          /\ temporary_volume' = None
          /\ output_files' = output_files]_vars

\* C16: _create_temporary_image and _generate_dmg report success exactly
\* when their attach, respectively convert, command exits 0; on success they
\* append exactly their own path to output_files, within the call, and on
\* failure they leave output_files unchanged.
C16_RecordedOnSuccessOnly ==
    [][/\ Calls("_create_temporary_image") =>
             /\ h_ret' = (\E i \in 1..Len(h_cmds') : h_cmds'[i] = Cmd("attach", 0))
             /\ output_files' = IF h_ret' THEN output_files \o <<SparseImage>>
                                ELSE output_files
       /\ Calls("_generate_dmg") =>
             /\ h_ret' = (h_cmds' = <<Cmd("convert", 0)>>)
             /\ output_files' = IF h_ret' THEN output_files \o <<Dmg>>
                                ELSE output_files]_vars

C16_Witness ==
    /\ h_op = "_create_temporary_image" /\ h_ret
    /\ h_cmds = <<Cmd("create", 0), Cmd("attach", 0)>>
    /\ output_files = <<SparseImage>>

\* _compute_hashes has read at least one chunk
ChunkRead == ~hashing.isNone /\ hashing.chunks > 0

\* C17: the percent computed after each chunk is floor(100 * B / S), B the
\* bytes read so far and S the file size, so every computed and printed
\* percent lies in 0..100.
C17_PercentOfBytesRead ==
    ChunkRead =>
        /\ hashing.percent = (100 * hashing.fed) \div hashing.total_size
        /\ hashing.percent \in 0..100
        /\ \A i \in 1..Len(hashing.emitted) : hashing.emitted[i].percent \in 0..100

\* C18: the progress markers one _compute_hashes call prints are strictly
\* increasing: none is printed twice and none after a larger one.
C18_MarkersIncrease ==
    ~hashing.isNone =>
        \A i, j \in 1..Len(hashing.emitted) :
            i < j => hashing.emitted[i].percent < hashing.emitted[j].percent

C18_Witness ==
    /\ h_pc = "hashed" /\ hashing.chunks > 100
    /\ Len(hashing.emitted) = 100
    /\ hashing.emitted[1].percent = 1 /\ hashing.emitted[100].percent = 100

\* _gather_path_info has returned the details of a path that is no mount
\* boundary
InspectedBelowMount ==
    /\ ~inspected.isNone
    /\ ~inspected.fs.ismount[inspected.path]
    /\ ~inspected.result.raised

\* the details of the inspected path agree with those of mount boundary anc
\* in device and description, and hold the path's own sectors and identifier
DescribedBy(anc) ==
    LET own == inspected.fs.stat[inspected.path]
        d == inspected.result.details
        a == gather_path_info(anc, inspected.fs)
    IN /\ ~a.raised
       /\ d.disk_device = a.details.disk_device
       /\ d.disk_info = a.details.disk_info
       /\ d.disk_sectors = (own.f_blocks * own.f_frsize) \div 512
       /\ d.disk_identifier = own.st_dev

\* the nearest mount boundary above the path as written, and the nearest at
\* or above the path with its symbolic links resolved
NearestMountAbove == WalkUp(dirname(inspected.path), inspected.fs)
NearestMountOfRealPath == WalkUp(inspected.fs.real[inspected.path], inspected.fs)

\* C19 as stated: for a path that is no mount boundary, _gather_path_info
\* returns the device and description of the path's nearest ancestor that is
\* a mount boundary, with the sectors and identifier of the path itself.
C19_NearestAncestor == InspectedBelowMount => DescribedBy(NearestMountAbove)

\* C19 as amended: for a path that is no mount boundary, _gather_path_info
\* returns the device and description of the nearest mount boundary at or
\* above the path's real path (symbolic links resolved), with the sectors
\* (blocks * block size / 512, integer division) and the identifier taken
\* from the statistics of the path itself.
C19_NearestMountOfRealPath ==
    InspectedBelowMount => DescribedBy(NearestMountOfRealPath)

C19_Witness ==
    /\ InspectedBelowMount
    /\ inspected.fs.real[inspected.path] # inspected.path
    /\ NearestMountOfRealPath # NearestMountAbove
    /\ inspected.result.details.disk_device # <<>>
    /\ inspected.result.details.disk_sectors = 5

\* a call of _detach_temporary_image is in progress
Detaching == h_pc \in {"detach_while", "detach_body"}

\* the detach commands of the latest helper call, in order
DetachStatuses ==
    LET RECURSIVE Pick(_)
        Pick(l) == IF l = <<>> THEN <<>>
                   ELSE (IF Head(l).cmd = "detach" THEN <<Head(l).status>> ELSE <<>>)
                        \o Pick(Tail(l))
    IN Pick(h_cmds)

\* what a returned _detach_temporary_image has done
DetachBounded ==
    DetachReturned =>
        /\ Len(DetachStatuses) >= 1
        /\ Len(DetachStatuses) <= d_attempts
        /\ \A i \in 1..(Len(DetachStatuses) - 1) : DetachStatuses[i] # 0
        /\ h_ret = (\E i \in 1..Len(DetachStatuses) : DetachStatuses[i] = 0)

\* the volume identifier the detach command is given: temporary_volume holds
\* a string (line 161), not None
VolumeGiven == temporary_volume # None

\* C20: for every attempts >= 1 and every sequence of exit statuses,
\* _detach_temporary_image, called with a volume identifier to detach,
\* terminates, having issued at least one and at most `attempts` detach
\* commands and none after one that exited 0, and returns success exactly
\* when one of them exited 0.
C20_DetachTerminatesBounded ==
    [](DetachBounded) /\ ((Detaching /\ VolumeGiven) ~> DetachReturned)

\* without a volume identifier the call starts no command and raises
DetachRaised ==
    h_op = "_detach_temporary_image" /\ h_pc = "idle" /\ d_exc = "TypeError"

C20_Witness ==
    /\ DetachReturned /\ VolumeGiven /\ d_attempts = MaxAttempts
    /\ DetachStatuses = <<1>> /\ h_ret = FALSE

====
